---- MODULE Spec2Model ----
(***************************************************************************)
(* Model of marvin.beta.assistants.runs.Run: the client-side control loop  *)
(* that starts a streamed assistant run, materialises messages and steps,  *)
(* executes the requested local tool calls, resubmits their outputs and    *)
(* loops until the run stops asking for action.                            *)
(*                                                                         *)
(* The remote service, the event handler, the assistant hooks and the      *)
(* local tool functions are the environment: every value they hand back    *)
(* and every exception they can raise is a nondeterministic input of the   *)
(* action that calls them.                                                 *)
(***************************************************************************)
EXTENDS Integers, Sequences, FiniteSets, TLC

\* ------------------------------------------------------------------ bounds
\* frames of run_async calls on the one Run object (Spec makes the calls one
\* after another, each on frame 1 once the frame before it is gone)
MaxInvocations == 2
\* streams of one invocation that may end in requires_action
MaxRequiresAction == 1
\* tool calls in one required action
MaxToolCalls == 2

\* ------------------------------------------------------- python values
\* Optional[T]: None is the empty tuple, a present value x is <<x>>.
None == <<>>
Some(x) == <<x>>
Value(o) == o[1]

Invocations == 1..MaxInvocations

\* openai RunStatus
TerminalStatuses == {"completed", "failed", "cancelled", "expired", "incomplete"}
NonTerminalStatuses == {"queued", "in_progress", "cancelling", "requires_action"}
Statuses == TerminalStatuses \cup NonTerminalStatuses

\* self.thread.id and self.assistant.id
THREAD_ID == "thread_1"
ASSISTANT_ID == "asst_1"

\* required_action of a run that asks for nothing
NoAction == [type |-> "none", tool_calls |-> <<>>]

\* the sequences without repetition over S of length at most n
RECURSIVE InjectiveSeqs(_, _)
InjectiveSeqs(S, n) ==
    IF n = 0 THEN {<<>>}
    ELSE LET shorter == InjectiveSeqs(S, n - 1)
         IN  shorter \cup
             {Append(s, x) : <<s, x>> \in
                 {p \in shorter \X S : \A k \in 1..Len(p[1]) : p[1][k] # p[2]}}

\* the elements of a set of integers, as an ascending list
RECURSIVE AscendingList(_)
AscendingList(S) ==
    IF S = {} THEN <<>>
    ELSE LET m == CHOOSE x \in S : \A y \in S : x <= y
         IN  <<m>> \o AscendingList(S \ {m})

\* --------------------------------------------------- messages and steps
\* the ids the service and the constructor use for messages and run steps
MessageIds == {1, 2}
StepIds == {1}

\* created_at of an object is fixed by its id; ids ascend as created_at descends
MessageCreatedAt(id) == 10 - id
StepCreatedAt(id) == 10 - id

\* a Message / RunStep snapshot; body tells the snapshots of one id apart
\* (0: given to the constructor, h: reported by handler h)
MakeMessage(id, body) == [id |-> id, created_at |-> MessageCreatedAt(id), body |-> body]
MakeStep(id, body) == [id |-> id, created_at |-> StepCreatedAt(id), body |-> body]

\* A python dict keyed by id: the function from its keys to its values.  The
\* insertion order of the dict is not kept: distinct ids have distinct
\* created_at here, so the stable sort of the values never falls back on it.
EmptyDict == <<>>
DictKeys(d) == DOMAIN d
DictValues(d) == LET keys == AscendingList(DOMAIN d) IN [k \in 1..Len(keys) |-> d[keys[k]]]

\* d[item.id] = item
DictSet(d, item) ==
    [id \in DOMAIN d \cup {item.id} |-> IF id = item.id THEN item ELSE d[id]]

\* d = {x.id: x for x in items}: the dict is replaced, not updated
DictReplace(d, items) ==
    LET RECURSIVE Go(_, _)
        Go(acc, k) == IF k > Len(items) THEN acc ELSE Go(DictSet(acc, items[k]), k + 1)
    IN  Go(EmptyDict, 1)

\* d.update({x.id: x for x in items})
DictUpdate(d, items) ==
    LET RECURSIVE Go(_, _)
        Go(acc, k) == IF k > Len(items) THEN acc ELSE Go(DictSet(acc, items[k]), k + 1)
    IN  Go(d, 1)

\* sorted(values, key=lambda m: m.created_at): a stable sort
SortedByCreatedAt(values) ==
    LET RECURSIVE Insert(_, _)
        Insert(sorted, x) ==
            IF sorted = <<>> THEN <<x>>
            ELSE IF sorted[Len(sorted)].created_at <= x.created_at
                 THEN Append(sorted, x)
                 ELSE Append(Insert(SubSeq(sorted, 1, Len(sorted) - 1), x),
                             sorted[Len(sorted)])
        RECURSIVE Go(_, _)
        Go(acc, k) == IF k > Len(values) THEN acc ELSE Go(Insert(acc, values[k]), k + 1)
    IN  Go(<<>>, 1)

\* ------------------------------------------------------------ exceptions
MakeException(type, arg) == [type |-> type, arg |-> arg]
NOT_CREATED == "Run has not been created yet."
HAS_RUN == "This run object was provided an ID; can not create a new run."

\* --------------------------------------------------------------- state
VARIABLES
    \* the fields of the Run object
    run,                     \* Optional[OpenAIRun]
    _messages,               \* dict id -> Message
    _steps,                  \* dict id -> RunStep
    data,                    \* Optional[Any]
    instructions,            \* Optional[str]
    additional_instructions, \* Optional[str]
    tools,                   \* Optional[list]
    additional_tools,        \* Optional[list]
    assistant,               \* what self.assistant.get_instructions() / get_tools() return
    \* the locals of each run_async invocation
    pc,                      \* where the invocation stands
    handler,                 \* its current event handler: [id, current_run, final_*]
    run_kwargs,              \* [instructions, tools], None for an absent key
    tool_outputs,            \* what get_tool_outputs returned
    exc,                     \* the exception in flight, or raised to the caller
    pending,                 \* the messages still to replay
    stream,                  \* the stream it has open: None, or [op, run_id]
    \* a public refresh() / cancel() call
    api,                     \* [pc, op, caller, exc, sent, retrieved]
    \* what the collaborators have seen
    request,                 \* the call the client is serving, None between calls
    handlers,                \* per invocation: event handlers constructed so far
    calls,                   \* per invocation: how often each collaborator was called
    replayed,                \* per invocation: on_message_done calls of the replay
    executed,                \* per invocation: the tool calls made for the last batch
    on_exception_calls       \* per invocation: the on_exception calls

object == <<run, _messages, _steps, data, instructions, additional_instructions,
            tools, additional_tools, assistant>>
config == <<instructions, additional_instructions, tools, additional_tools, assistant>>
locals == <<pc, handler, run_kwargs, tool_outputs, exc, pending, stream>>
seen == <<request, handlers, calls, replayed, executed, on_exception_calls>>
vars == <<object, locals, api, seen>>

\* ------------------------------------------------------- configuration
\* x or ""
OrEmpty(o) == IF o = None THEN "" ELSE Value(o)

\* get_instructions joining with a single newline
GetInstructionsSingleNewline ==
    LET base == IF instructions = None
                THEN OrEmpty(assistant.instructions)
                ELSE Value(instructions)
    IN  IF additional_instructions # None
        THEN base \o "\n" \o Value(additional_instructions)
        ELSE base

\* Run.get_instructions
GetInstructions ==
    LET base == IF instructions = None
                THEN OrEmpty(assistant.instructions)
                ELSE Value(instructions)
    IN  IF additional_instructions # None
        THEN base \o "\n\n" \o Value(additional_instructions)
        ELSE base

\* Run.get_tools
GetTools ==
    LET base == IF tools = None THEN assistant.tools ELSE Value(tools)
    IN  IF additional_tools # None THEN base \o Value(additional_tools) ELSE base

\* the run_kwargs run_async builds
RunKwargs ==
    [instructions |->
        IF instructions # None \/ additional_instructions # None
        THEN Some(GetInstructions) ELSE None,
     tools |->
        IF tools # None \/ additional_tools # None
        THEN Some(GetTools) ELSE None]

\* Run.messages and Run.steps
Messages == SortedByCreatedAt(DictValues(_messages))
Steps == SortedByCreatedAt(DictValues(_steps))

\* ------------------------------------------------------------ tool calls
\* a RequiredActionFunctionToolCall: its id and the name of its function
FunctionName(id) == IF id % 2 = 1 THEN "f" ELSE "g"
MakeToolCall(id) == [id |-> id, name |-> FunctionName(id)]

\* What marvin.utilities.tools.call_function_tool does with one call: it
\* returns None, "" or a text, raises some exception, or raises CancelRun.
ToolOutcomes ==
    {[kind |-> "return", value |-> v] : v \in {None, Some(""), Some("42")}}
    \cup {[kind |-> "raise", value |-> Some("boom")],
          [kind |-> "cancel", value |-> Some("d1")]}

\* the error string without the name of the function
ErrorOutputUnnamed(name, message) == "Error calling function: " \o message

\* f"Error calling function {tool_call.function.name}: {exc}"
ErrorOutput(name, message) == "Error calling function " \o name \o ": " \o message

\* the entry without `or ""`: a None result stays None
ToolOutputNoDefault(tool_call, output) == [tool_call_id |-> tool_call.id, output |-> output]

\* dict(tool_call_id=tool_call.id, output=output or ""); the output is kept as
\* the python value it is: Some(text), or None
ToolOutput(tool_call, output) ==
    [tool_call_id |-> tool_call.id, output |-> Some(OrEmpty(output))]

\* the output of one tool call that did not raise CancelRun
OutputOf(tool_call, outcome) ==
    IF outcome.kind = "raise"
    THEN Some(ErrorOutput(tool_call.name, Value(outcome.value)))
    ELSE outcome.value

\* the for loop of get_tool_outputs from call k on: outcome[k] is what the
\* k-th call does; a CancelRun leaves the loop at once
RECURSIVE CallTools(_, _, _, _, _)
CallTools(tool_calls, outcome, k, outputs, done) ==
    IF k > Len(tool_calls)
    THEN [raised |-> None, value |-> [type |-> "list", items |-> outputs],
          executed |-> done]
    ELSE IF outcome[k].kind = "cancel"
    THEN [raised |-> Some(MakeException("CancelRun", outcome[k].value)),
          value |-> [type |-> "list", items |-> outputs],
          executed |-> Append(done, [tool_call |-> tool_calls[k], outcome |-> outcome[k]])]
    ELSE CallTools(tool_calls, outcome, k + 1,
                   Append(outputs, ToolOutput(tool_calls[k], OutputOf(tool_calls[k], outcome[k]))),
                   Append(done, [tool_call |-> tool_calls[k], outcome |-> outcome[k]]))

\* Run.get_tool_outputs(run)
GetToolOutputs(r, outcome) ==
    IF r.status # "requires_action"
    THEN [raised |-> None, value |-> [type |-> "tuple", items |-> <<None, None>>],
          executed |-> <<>>]
    ELSE IF r.required_action.type = "submit_tool_outputs"
    THEN CallTools(r.required_action.tool_calls, outcome, 1, <<>>, <<>>)
    ELSE [raised |-> None, value |-> [type |-> "NoneType", items |-> <<>>],
          executed |-> <<>>]

\* ------------------------------------------------------- the environment
\* ids the service gives to runs
RunIds == {"run_1", "run_2"}

\* the required actions a requires_action run may carry
RequiredActions ==
    {[type |-> "submit_tool_outputs", tool_calls |-> [k \in 1..Len(s) |-> MakeToolCall(s[k])]] :
        s \in InjectiveSeqs(1..MaxToolCalls, MaxToolCalls)}
    \cup {[type |-> "other", tool_calls |-> <<>>]}

\* the runs with id `id` a handler may hold as current_run when its stream ends
StreamedRuns(id, may_require_action) ==
    {[id |-> id, status |-> s, required_action |-> NoAction] :
        s \in Statuses \ {"requires_action"}}
    \cup IF may_require_action
         THEN {[id |-> id, status |-> "requires_action", required_action |-> a] :
                  a \in RequiredActions}
         ELSE {}

\* what client.beta.threads.runs.retrieve may return for run `id`
RetrievedRuns(id) ==
    {[id |-> id, status |-> s,
      required_action |-> IF s = "requires_action"
                          THEN [type |-> "submit_tool_outputs", tool_calls |-> <<MakeToolCall(1)>>]
                          ELSE NoAction] : s \in Statuses}

\* the final messages / run steps a handler may report, stream n of an invocation
FinalMessages(n) ==
    {[k \in 1..Len(AscendingList(S)) |-> MakeMessage(AscendingList(S)[k], n)] :
        S \in SUBSET MessageIds}
FinalRunSteps(n) ==
    {[k \in 1..Len(AscendingList(S)) |-> MakeStep(AscendingList(S)[k], n)] :
        S \in SUBSET StepIds}

\* the counters of one invocation
NoCalls == [pre_run_hook |-> 0, create_and_stream |-> 0, submit_tool_outputs_stream |-> 0,
            streams_done |-> 0, requires_action |-> 0, post_run_hook |-> 0]
NoHandler == [id |-> 0, current_run |-> None, final_messages |-> <<>>, final_run_steps |-> <<>>]
NoKwargs == [instructions |-> None, tools |-> None]
NoValue == [type |-> "NoneType", items |-> <<>>]
\* no refresh() / cancel() call is active; caller 0 is the user of the Run
NoApi == [pc |-> "idle", op |-> "none", caller |-> 0, exc |-> None, sent |-> <<>>,
          retrieved |-> None]

\* ------------------------------------------------------------------ init
\* Run(thread=..., assistant=..., messages=..., run=..., data=..., ...)
ConstructedRuns ==
    {None} \cup {Some([id |-> id, status |-> "in_progress", required_action |-> NoAction]) :
                    id \in RunIds}
ConstructedMessages ==
    {[k \in 1..Len(AscendingList(S)) |-> MakeMessage(AscendingList(S)[k], 0)] :
        S \in SUBSET MessageIds}

InitObject ==
    /\ run \in ConstructedRuns
    /\ \E messages \in ConstructedMessages : _messages = DictUpdate(EmptyDict, messages)
    /\ _steps = EmptyDict
    /\ data = None

InitRest ==
    /\ pc = [i \in Invocations |-> "idle"]
    /\ handler = [i \in Invocations |-> NoHandler]
    /\ run_kwargs = [i \in Invocations |-> NoKwargs]
    /\ tool_outputs = [i \in Invocations |-> NoValue]
    /\ exc = [i \in Invocations |-> None]
    /\ pending = [i \in Invocations |-> <<>>]
    /\ stream = [i \in Invocations |-> None]
    /\ api = NoApi
    /\ request = None
    /\ handlers = [i \in Invocations |-> 0]
    /\ calls = [i \in Invocations |-> NoCalls]
    /\ replayed = [i \in Invocations |-> <<>>]
    /\ executed = [i \in Invocations |-> <<>>]
    /\ on_exception_calls = [i \in Invocations |-> <<>>]

Init ==
    /\ InitObject
    /\ instructions = None
    /\ additional_instructions = Some("A")
    /\ tools = None
    /\ additional_tools = None
    /\ assistant = [instructions |-> Some("S"), tools |-> <<"t0">>]
    /\ InitRest

\* ------------------------------------------------------------- run_async
\* One call runs at a time: a call of run_async, refresh or cancel starts
\* when no other call is active, on the free frame of least index.
Quiet == api.pc = "idle" /\ \A j \in Invocations : pc[j] = "idle"
Sequential(i) == Quiet /\ i = 1

\* the guard of run_async left out
HasRunNever(r) == FALSE

\* `if self.run is not None`
HasRun(r) == r # None

\* the loop going on until the run is completed
WhileConditionNotCompleted(current_run) == current_run.status # "completed"

\* the loop waiting on the statuses of a run still at work, not on requires_action
WhileConditionWrongStatus(current_run) == current_run.status \in {"queued", "in_progress"}

\* the condition of the while loop
WhileCondition(current_run) == current_run.status \in {"requires_action"}

\* the first handler used again for every stream
NewHandlerShared(n) == [id |-> 1, current_run |-> None, final_messages |-> <<>>, final_run_steps |-> <<>>]

\* self.event_handler_class(**self.event_handler_kwargs), the n-th of the invocation
NewHandler(n) == [id |-> n, current_run |-> None, final_messages |-> <<>>, final_run_steps |-> <<>>]

\* run_async up to pre_run_hook: the run_kwargs, the guard on self.run and
\* the first handler
RunAsyncEnter(i) ==
    /\ Sequential(i)
    /\ run_kwargs' = [run_kwargs EXCEPT ![i] = RunKwargs]
    /\ IF HasRun(run)
       THEN /\ exc' = [exc EXCEPT ![i] = Some(MakeException("ValueError", HAS_RUN))]
            /\ pc' = [pc EXCEPT ![i] = "raised"]
            /\ UNCHANGED <<handler, handlers>>
       ELSE /\ handlers' = [handlers EXCEPT ![i] = 1]
            /\ handler' = [handler EXCEPT ![i] = NewHandler(1)]
            /\ pc' = [pc EXCEPT ![i] = "pre_run_hook"]
            /\ exc' = exc
    /\ UNCHANGED <<object, tool_outputs, pending, stream, api, request, calls, replayed,
                   executed, on_exception_calls>>

\* pre_run_hook followed by create_and_stream, the replay left out
PreRunHookNoReplay(i) ==
    /\ pc[i] = "pre_run_hook"
    /\ calls' = [calls EXCEPT ![i].pre_run_hook = @ + 1]
    /\ pc' = [pc EXCEPT ![i] = "create"]
    /\ UNCHANGED <<object, handler, run_kwargs, tool_outputs, exc, pending, stream, api, request,
                   handlers, replayed, executed, on_exception_calls>>

\* self.assistant.pre_run_hook(), then the evaluation of self.messages
PreRunHook(i) ==
    /\ pc[i] = "pre_run_hook"
    /\ calls' = [calls EXCEPT ![i].pre_run_hook = @ + 1]
    /\ \E raises \in BOOLEAN :
        IF raises
        THEN /\ exc' = [exc EXCEPT ![i] = Some(MakeException("Exception", "pre_run_hook"))]
             /\ pc' = [pc EXCEPT ![i] = "except"]
             /\ pending' = pending
        ELSE /\ pending' = [pending EXCEPT ![i] = Messages]
             /\ pc' = [pc EXCEPT ![i] = IF Messages = <<>> THEN "create" ELSE "replay"]
             /\ exc' = exc
    /\ UNCHANGED <<object, handler, run_kwargs, tool_outputs, stream, api, request,
                   handlers, replayed, executed, on_exception_calls>>

\* await handler.on_message_done(msg) for the next message of the replay
ReplayMessage(i) ==
    /\ pc[i] = "replay"
    /\ replayed' = [replayed EXCEPT ![i] =
                        Append(@, [handler |-> handler[i].id, message |-> Head(pending[i])])]
    /\ \E raises \in BOOLEAN :
        IF raises
        THEN /\ exc' = [exc EXCEPT ![i] = Some(MakeException("Exception", "on_message_done"))]
             /\ pc' = [pc EXCEPT ![i] = "except"]
             /\ pending' = pending
        ELSE /\ pending' = [pending EXCEPT ![i] = Tail(@)]
             /\ pc' = [pc EXCEPT ![i] = IF Tail(pending[i]) = <<>> THEN "create" ELSE "replay"]
             /\ exc' = exc
    /\ UNCHANGED <<object, handler, run_kwargs, tool_outputs, stream, api, request,
                   handlers, calls, executed, on_exception_calls>>

\* client.beta.threads.runs.create_and_stream(...) is called
CreateAndStream(i) ==
    /\ pc[i] = "create"
    /\ request' = Some([op |-> "create_and_stream", thread_id |-> THREAD_ID,
                        assistant_id |-> ASSISTANT_ID, event_handler |-> handler[i].id,
                        kwargs |-> run_kwargs[i], invocation |-> i])
    /\ stream' = [stream EXCEPT ![i] = Some([op |-> "create_and_stream", run_id |-> None])]
    /\ calls' = [calls EXCEPT ![i].create_and_stream = @ + 1]
    /\ pc' = [pc EXCEPT ![i] = "enter_stream"]
    /\ UNCHANGED <<object, handler, run_kwargs, tool_outputs, exc, pending, api,
                   handlers, replayed, executed, on_exception_calls>>

\* `async with ... as stream` is entered: the service has taken the request.
\* The arguments of the call are not read again.
StreamEntered(i) ==
    /\ pc[i] = "enter_stream"
    /\ request' = None
    /\ tool_outputs' = [tool_outputs EXCEPT ![i] = NoValue]
    /\ executed' = [executed EXCEPT ![i] = <<>>]
    /\ pc' = [pc EXCEPT ![i] = "until_done"]
    /\ UNCHANGED <<object, handler, run_kwargs, exc, pending, stream, api, handlers,
                   calls, replayed, on_exception_calls>>

\* the ids the run reported by the open stream may have: the service's
\* choice for a new run, the submitted run_id for a resubmission
StreamRunIds(open) == IF open.run_id = None THEN RunIds ELSE {Value(open.run_id)}

\* until_done returning without the assignment of self.run
UntilDoneRunNotAssigned(i) ==
    /\ pc[i] = "until_done"
    /\ \E id \in StreamRunIds(Value(stream[i])) :
       \E current_run \in StreamedRuns(id, calls[i].requires_action < MaxRequiresAction) :
       \E messages \in FinalMessages(handler[i].id) :
       \E steps \in FinalRunSteps(handler[i].id) :
        /\ handler' = [handler EXCEPT ![i].current_run = Some(current_run),
                                       ![i].final_messages = messages,
                                       ![i].final_run_steps = steps]
        /\ _messages' = DictUpdate(_messages, messages)
        /\ _steps' = DictUpdate(_steps, steps)
        /\ calls' = [calls EXCEPT
                        ![i].streams_done = @ + 1,
                        ![i].requires_action =
                            IF current_run.status = "requires_action" THEN @ + 1 ELSE @]
        /\ pc' = [pc EXCEPT ![i] = IF WhileCondition(current_run)
                                   THEN "get_tool_outputs" ELSE "post_run_hook"]
    /\ stream' = [stream EXCEPT ![i] = None]
    /\ UNCHANGED <<run, data, config, run_kwargs, tool_outputs, exc, pending, api, request,
                   handlers, replayed, executed, on_exception_calls>>

\* await stream.until_done() returns: self.run, self._messages and
\* self._steps are set from the handler, and the while condition is tested
UntilDone(i) ==
    /\ pc[i] = "until_done"
    /\ \E id \in StreamRunIds(Value(stream[i])) :
       \E current_run \in StreamedRuns(id, calls[i].requires_action < MaxRequiresAction) :
       \E messages \in FinalMessages(handler[i].id) :
       \E steps \in FinalRunSteps(handler[i].id) :
        /\ handler' = [handler EXCEPT ![i].current_run = Some(current_run),
                                       ![i].final_messages = messages,
                                       ![i].final_run_steps = steps]
        /\ run' = Some(current_run)
        /\ _messages' = DictUpdate(_messages, messages)
        /\ _steps' = DictUpdate(_steps, steps)
        /\ calls' = [calls EXCEPT
                        ![i].streams_done = @ + 1,
                        ![i].requires_action =
                            IF current_run.status = "requires_action" THEN @ + 1 ELSE @]
        /\ pc' = [pc EXCEPT ![i] = IF WhileCondition(current_run)
                                   THEN "get_tool_outputs" ELSE "post_run_hook"]
    /\ stream' = [stream EXCEPT ![i] = None]
    /\ UNCHANGED <<data, config, run_kwargs, tool_outputs, exc, pending, api, request,
                   handlers, replayed, executed, on_exception_calls>>

\* the stream raising after self.run was assigned from a run still at work
StreamFailsAfterAssignment(i) ==
    /\ pc[i] \in {"enter_stream", "until_done"}
    /\ request' = None
    /\ stream' = [stream EXCEPT ![i] = None]
    /\ \E id \in StreamRunIds(Value(stream[i])) :
        run' = Some([id |-> id, status |-> "in_progress", required_action |-> NoAction])
    /\ exc' = [exc EXCEPT ![i] = Some(MakeException("Exception", "stream"))]
    /\ pc' = [pc EXCEPT ![i] = "except"]
    /\ UNCHANGED <<_messages, _steps, data, config, handler, run_kwargs, tool_outputs, pending,
                   api, handlers, calls, replayed, executed, on_exception_calls>>

\* the stream raises before it is done (the request fails, the connection
\* drops, a callback of the handler raises)
StreamFails(i) ==
    /\ pc[i] \in {"enter_stream", "until_done"}
    /\ request' = None
    /\ stream' = [stream EXCEPT ![i] = None]
    /\ exc' = [exc EXCEPT ![i] = Some(MakeException("Exception", "stream"))]
    /\ pc' = [pc EXCEPT ![i] = "except"]
    /\ UNCHANGED <<object, handler, run_kwargs, tool_outputs, pending, api, handlers,
                   calls, replayed, executed, on_exception_calls>>

\* tool_outputs = await self.get_tool_outputs(run=handler.current_run)
CollectToolOutputs(i) ==
    /\ pc[i] = "get_tool_outputs"
    /\ LET current_run == Value(handler[i].current_run)
       IN  \E outcome \in [1..Len(current_run.required_action.tool_calls) -> ToolOutcomes] :
            LET result == GetToolOutputs(current_run, outcome)
            IN  /\ executed' = [executed EXCEPT ![i] = result.executed]
                /\ IF result.raised # None
                   THEN /\ exc' = [exc EXCEPT ![i] = result.raised]
                        /\ pc' = [pc EXCEPT ![i] = "except_cancel"]
                        /\ tool_outputs' = tool_outputs
                   ELSE /\ tool_outputs' = [tool_outputs EXCEPT ![i] = result.value]
                        /\ pc' = [pc EXCEPT ![i] = "submit"]
                        /\ exc' = exc
    /\ UNCHANGED <<object, handler, run_kwargs, pending, stream, api, request, handlers, calls,
                   replayed, on_exception_calls>>

\* a new handler, and client.beta.threads.runs.submit_tool_outputs_stream(...)
SubmitToolOutputsStream(i) ==
    /\ pc[i] = "submit"
    /\ handlers' = [handlers EXCEPT ![i] = @ + 1]
    /\ handler' = [handler EXCEPT ![i] = NewHandler(handlers[i] + 1)]
    /\ request' = Some([op |-> "submit_tool_outputs_stream", thread_id |-> THREAD_ID,
                        run_id |-> Value(run).id, tool_outputs |-> tool_outputs[i],
                        event_handler |-> handlers[i] + 1, invocation |-> i])
    /\ stream' = [stream EXCEPT ![i] = Some([op |-> "submit_tool_outputs_stream",
                                             run_id |-> Some(Value(run).id)])]
    /\ calls' = [calls EXCEPT ![i].submit_tool_outputs_stream = @ + 1]
    /\ pc' = [pc EXCEPT ![i] = "enter_stream"]
    /\ UNCHANGED <<object, run_kwargs, tool_outputs, exc, pending, api, replayed,
                   executed, on_exception_calls>>

\* ---------------------------------------------------- refresh and cancel
\* client.beta.threads.runs.cancel(run_id=self.run.id, thread_id=self.thread.id)
CancelCall(r) == [op |-> "cancel", run_id |-> r.id, thread_id |-> THREAD_ID]
\* client.beta.threads.runs.retrieve(run_id=self.run.id, thread_id=self.thread.id)
RetrieveCall(r) == [op |-> "retrieve", run_id |-> r.id, thread_id |-> THREAD_ID]

\* `if not self.run`
NotRun(r) == r = None

\* the retrieved run dropped: `await client.beta.threads.runs.retrieve(...)`
RefreshedRunDropped(old, retrieved) == old

\* self.run = await client.beta.threads.runs.retrieve(...)
RefreshedRun(old, retrieved) == Some(retrieved)

\* refresh_async up to its await, within the call `call` of refresh or cancel
RefreshAsyncEnter(call) ==
    IF NotRun(run)
    THEN /\ api' = [call EXCEPT !.pc = "raised",
                                !.exc = Some(MakeException("ValueError", NOT_CREATED))]
         /\ request' = None
    ELSE /\ api' = [call EXCEPT !.pc = "retrieve",
                                !.sent = Append(@, RetrieveCall(Value(run)))]
         /\ request' = Some(RetrieveCall(Value(run)))

\* cancel_async up to its await, within the call `call` of cancel
CancelAsyncEnter(call) ==
    IF NotRun(run)
    THEN /\ api' = [call EXCEPT !.pc = "raised",
                                !.exc = Some(MakeException("ValueError", NOT_CREATED))]
         /\ request' = None
    ELSE /\ api' = [call EXCEPT !.pc = "cancel",
                                !.sent = Append(@, CancelCall(Value(run)))]
         /\ request' = Some(CancelCall(Value(run)))

\* the user calls run.refresh()
Refresh ==
    /\ Quiet
    /\ RefreshAsyncEnter([NoApi EXCEPT !.op = "refresh"])
    /\ UNCHANGED <<object, locals, handlers, calls, replayed, executed, on_exception_calls>>

\* the user calls run.cancel()
Cancel ==
    /\ Quiet
    /\ CancelAsyncEnter([NoApi EXCEPT !.op = "cancel"])
    /\ UNCHANGED <<object, locals, handlers, calls, replayed, executed, on_exception_calls>>

\* the cancel request returns, and cancel_async goes on to refresh_async
CancelReturns ==
    /\ api.pc = "cancel"
    /\ RefreshAsyncEnter(api)
    /\ UNCHANGED <<object, locals, handlers, calls, replayed, executed, on_exception_calls>>

\* the retrieve request returns: self.run = the retrieved run
RetrieveReturns ==
    /\ api.pc = "retrieve"
    /\ \E retrieved \in RetrievedRuns(Value(request).run_id) :
        /\ run' = RefreshedRun(run, retrieved)
        /\ api' = [api EXCEPT !.pc = "returned", !.retrieved = Some(retrieved)]
    /\ request' = None
    /\ UNCHANGED <<_messages, _steps, data, config, locals, handlers, calls, replayed,
                   executed, on_exception_calls>>

\* the cancel or retrieve request raises
RequestFails ==
    /\ api.pc \in {"cancel", "retrieve"}
    /\ api' = [api EXCEPT !.pc = "raised",
                          !.exc = Some(MakeException("Exception", Value(request).op))]
    /\ request' = None
    /\ UNCHANGED <<object, locals, handlers, calls, replayed, executed, on_exception_calls>>

\* the user has the result of refresh() / cancel()
ApiDone ==
    /\ api.pc \in {"returned", "raised"}
    /\ api.caller = 0
    /\ api' = NoApi
    /\ UNCHANGED <<object, locals, seen>>

\* ------------------------------------------- run_async: the except clauses
\* CancelRun caught by `except Exception`, as it is when that clause comes first
ExceptCancelRunAsException(i) ==
    /\ pc[i] = "except_cancel"
    /\ pc' = [pc EXCEPT ![i] = "except"]
    /\ UNCHANGED <<object, handler, run_kwargs, tool_outputs, exc, pending, stream, api,
                   seen>>

\* except CancelRun: await self.cancel_async()
ExceptCancelRun(i) ==
    /\ pc[i] = "except_cancel"
    /\ CancelAsyncEnter([NoApi EXCEPT !.op = "cancel", !.caller = i])
    /\ pc' = [pc EXCEPT ![i] = "cancel_async"]
    /\ UNCHANGED <<object, handler, run_kwargs, tool_outputs, exc, pending, stream,
                   handlers, calls, replayed, executed, on_exception_calls>>

\* cancel_async is over: self.data = exc.data, or its exception leaves run_async
CancelRunDone(i) ==
    /\ pc[i] = "cancel_async"
    /\ api.caller = i
    /\ api.pc \in {"returned", "raised"}
    /\ IF api.pc = "returned"
       THEN /\ data' = Value(exc[i]).arg
            /\ exc' = [exc EXCEPT ![i] = None]
            /\ pc' = [pc EXCEPT ![i] = "post_run_hook"]
       ELSE /\ data' = data
            /\ exc' = [exc EXCEPT ![i] = api.exc]
            /\ pc' = [pc EXCEPT ![i] = "raised"]
    /\ api' = NoApi
    /\ UNCHANGED <<run, _messages, _steps, config, handler, run_kwargs, tool_outputs,
                   pending, stream, seen>>

\* the exception re-raised without the call of handler.on_exception
ExceptExceptionUnreported(i) ==
    /\ pc[i] = "except"
    /\ pc' = [pc EXCEPT ![i] = "raised"]
    /\ UNCHANGED <<object, handler, run_kwargs, tool_outputs, exc, pending, stream, api,
                   seen>>

\* except Exception: await handler.on_exception(exc); raise
ExceptException(i) ==
    /\ pc[i] = "except"
    /\ on_exception_calls' = [on_exception_calls EXCEPT ![i] =
                                 Append(@, [handler |-> handler[i].id, exc |-> Value(exc[i])])]
    /\ pc' = [pc EXCEPT ![i] = "raised"]
    /\ UNCHANGED <<object, handler, run_kwargs, tool_outputs, exc, pending, stream, api, request,
                   handlers, calls, replayed, executed>>

\* self.assistant.post_run_hook(run=self); return self
PostRunHook(i) ==
    /\ pc[i] = "post_run_hook"
    /\ calls' = [calls EXCEPT ![i].post_run_hook = @ + 1]
    /\ pc' = [pc EXCEPT ![i] = "returned"]
    /\ UNCHANGED <<object, handler, run_kwargs, tool_outputs, exc, pending, stream, api, request,
                   handlers, replayed, executed, on_exception_calls>>

\* the caller has the result of run_async: the frame of the call is gone
RunAsyncDone(i) ==
    /\ pc[i] \in {"returned", "raised"}
    /\ pc' = [pc EXCEPT ![i] = "idle"]
    /\ handler' = [handler EXCEPT ![i] = NoHandler]
    /\ run_kwargs' = [run_kwargs EXCEPT ![i] = NoKwargs]
    /\ tool_outputs' = [tool_outputs EXCEPT ![i] = NoValue]
    /\ exc' = [exc EXCEPT ![i] = None]
    /\ pending' = [pending EXCEPT ![i] = <<>>]
    /\ stream' = [stream EXCEPT ![i] = None]
    /\ handlers' = [handlers EXCEPT ![i] = 0]
    /\ calls' = [calls EXCEPT ![i] = NoCalls]
    /\ replayed' = [replayed EXCEPT ![i] = <<>>]
    /\ executed' = [executed EXCEPT ![i] = <<>>]
    /\ on_exception_calls' = [on_exception_calls EXCEPT ![i] = <<>>]
    /\ UNCHANGED <<object, api, request>>

\* ------------------------------------------------------- specification
Step(i) ==
    \/ PreRunHook(i)
    \/ ReplayMessage(i)
    \/ CreateAndStream(i)
    \/ StreamEntered(i)
    \/ UntilDone(i)
    \/ StreamFails(i)
    \/ CollectToolOutputs(i)
    \/ SubmitToolOutputsStream(i)
    \/ ExceptCancelRun(i)
    \/ CancelRunDone(i)
    \/ ExceptException(i)
    \/ PostRunHook(i)

Next ==
    \/ \E i \in Invocations : RunAsyncEnter(i)
    \/ \E i \in Invocations : Step(i)
    \/ \E i \in Invocations : RunAsyncDone(i)
    \/ Refresh
    \/ Cancel
    \/ CancelReturns
    \/ RetrieveReturns
    \/ RequestFails
    \/ ApiDone

Spec == Init /\ [][Next]_vars

\* run_async is called while another call of run_async is under way: the
\* code of RunAsyncEnter on any free frame
RunAsyncEnterOverlapping(i) ==
    /\ pc[i] = "idle"
    /\ api.pc = "idle"
    /\ run_kwargs' = [run_kwargs EXCEPT ![i] = RunKwargs]
    /\ IF HasRun(run)
       THEN /\ exc' = [exc EXCEPT ![i] = Some(MakeException("ValueError", HAS_RUN))]
            /\ pc' = [pc EXCEPT ![i] = "raised"]
            /\ UNCHANGED <<handler, handlers>>
       ELSE /\ handlers' = [handlers EXCEPT ![i] = 1]
            /\ handler' = [handler EXCEPT ![i] = NewHandler(1)]
            /\ pc' = [pc EXCEPT ![i] = "pre_run_hook"]
            /\ exc' = exc
    /\ UNCHANGED <<object, tool_outputs, pending, stream, api, request, calls, replayed,
                   executed, on_exception_calls>>

\* a Run constructed without a run and without messages
InitOverlapping ==
    /\ run = None
    /\ _messages = EmptyDict
    /\ _steps = EmptyDict
    /\ data = None
    /\ instructions = None
    /\ additional_instructions = Some("A")
    /\ tools = None
    /\ additional_tools = None
    /\ assistant = [instructions |-> Some("S"), tools |-> <<"t0">>]
    /\ InitRest

\* run_async up to the end of its initial stream, and from there to its end
\* when the run does not require action; the coroutines of the overlapping
\* calls take turns in any order
NextOverlapping ==
    \/ \E i \in Invocations : RunAsyncEnterOverlapping(i)
    \/ \E i \in Invocations : PreRunHook(i)
    \/ \E i \in Invocations : ReplayMessage(i)
    \/ \E i \in Invocations : CreateAndStream(i)
    \/ \E i \in Invocations : StreamEntered(i)
    \/ \E i \in Invocations : UntilDone(i)
    \/ \E i \in Invocations : StreamFails(i)
    \/ \E i \in Invocations : ExceptException(i)
    \/ \E i \in Invocations : PostRunHook(i)
    \/ \E i \in Invocations : RunAsyncDone(i)

SpecOverlapping == InitOverlapping /\ [][NextOverlapping]_vars

\* The configurations of a Run: every field unset, empty or set.
InitConfig ==
    /\ run = None
    /\ _messages = EmptyDict
    /\ _steps = EmptyDict
    /\ data = None
    /\ instructions \in {None, Some(""), Some("I")}
    /\ additional_instructions \in {None, Some("A")}
    /\ tools \in {None, Some(<<>>), Some(<<"t1">>)}
    /\ additional_tools \in {None, Some(<<"t2">>)}
    /\ assistant \in [instructions : {None, Some(""), Some("S")}, tools : {<<>>, <<"t0">>}]
    /\ InitRest

\* run_async up to its first stream, which fails
NextConfig ==
    \/ \E i \in Invocations : RunAsyncEnter(i)
    \/ \E i \in Invocations : PreRunHook(i)
    \/ \E i \in Invocations : CreateAndStream(i)
    \/ \E i \in Invocations : StreamFails(i)
    \/ \E i \in Invocations : ExceptException(i)
    \/ \E i \in Invocations : RunAsyncDone(i)

SpecConfig == InitConfig /\ [][NextConfig]_vars

\* Every stream and every request ends, and the event loop resumes a
\* coroutine that can go on.
FairSpec ==
    /\ Spec
    /\ \A i \in Invocations : WF_vars(Step(i))
    /\ WF_vars(CancelReturns \/ RetrieveReturns \/ RequestFails)

\* ================================================================ claims
Finished(i) == pc[i] \in {"returned", "raised"}

\* a tool call of the invocation's last batch raised CancelRun
CancelRunRaised(i) ==
    /\ executed[i] # <<>>
    /\ executed[i][Len(executed[i])].outcome.kind = "cancel"

\* the last stream of invocation i ended asking for tool outputs, and the
\* next client call has not been made yet
AwaitsToolOutputs(i) ==
    /\ pc[i] \in {"get_tool_outputs", "submit", "except_cancel"}
    /\ Value(handler[i].current_run).required_action.type = "submit_tool_outputs"

\* ---------------------------------------------------------------- C1
\* C1 as stated: whenever run_async has returned normally, self.run is set
\* and its status is one of the terminal statuses.
C1_ReturnsTerminal ==
    \A i \in Invocations :
        pc[i] = "returned" => run # None /\ Value(run).status \in TerminalStatuses

\* C1 as amended: whenever run_async has returned normally, self.run is set;
\* when no tool raised CancelRun it is the run the last stream ended with and
\* its status is not requires_action (the only status the loop tests for);
\* on the CancelRun path it is the run retrieved after the cancel request,
\* with whatever status the service reports for it.
C1_ReturnsNotRequiringAction ==
    \A i \in Invocations :
        pc[i] = "returned" =>
            /\ run # None
            /\ ~CancelRunRaised(i) =>
                /\ run = handler[i].current_run
                /\ Value(run).status # "requires_action"

\* a run that returned after a resubmission, in a terminal status
C1_Witness ==
    \E i \in Invocations :
        /\ pc[i] = "returned"
        /\ ~CancelRunRaised(i)
        /\ calls[i].submit_tool_outputs_stream = 1
        /\ Value(run).status = "completed"

\* ---------------------------------------------------------------- C2
\* request `req` submits, for run `r`, one output per call of `r` in order;
\* `done` are the tool calls as they were made
IsSubmissionFor(req, r, done) ==
    LET tool_calls == r.required_action.tool_calls
        items == req.tool_outputs.items
    IN  /\ req.op = "submit_tool_outputs_stream"
        /\ req.thread_id = THREAD_ID
        /\ req.run_id = r.id
        /\ req.tool_outputs.type = "list"
        /\ Len(items) = Len(tool_calls)
        /\ Len(done) = Len(tool_calls)
        /\ \A k \in 1..Len(tool_calls) :
            /\ items[k].tool_call_id = tool_calls[k].id
            /\ items[k].output # None
            /\ done[k].tool_call = tool_calls[k]
            /\ done[k].outcome.kind = "return" =>
                  items[k].output =
                      IF done[k].outcome.value \in {None, Some("")}
                      THEN Some("") ELSE done[k].outcome.value

\* C2 as stated: after a stream that ended in requires_action with a
\* required action of type submit_tool_outputs, the next client call is
\* submit_tool_outputs_stream for the same thread and run, with one string
\* output per requested tool call, in the order of the calls.
C2_NextCallSubmits ==
    [][\A i \in Invocations :
        (AwaitsToolOutputs(i) /\ request = None /\ request' # None) =>
            IsSubmissionFor(Value(request'), Value(handler[i].current_run), executed[i])]_vars

\* C2 as amended: the same, unless a tool call of the batch raised CancelRun;
\* then the next client call is the cancel request for that run and nothing
\* is submitted.
C2_NextCallSubmitsUnlessCancelRun ==
    [][\A i \in Invocations :
        (AwaitsToolOutputs(i) /\ request = None /\ request' # None) =>
            IF CancelRunRaised(i)
            THEN Value(request') = CancelCall(Value(handler[i].current_run))
            ELSE IsSubmissionFor(Value(request'), Value(handler[i].current_run),
                                 executed[i])]_vars

\* two outputs are submitted in the order of the calls, which is not the
\* order of their ids, the first for a tool that returned None
C2_Witness ==
    \E i \in Invocations :
        /\ pc[i] = "enter_stream"
        /\ request # None
        /\ Value(request).op = "submit_tool_outputs_stream"
        /\ Len(Value(request).tool_outputs.items) = 2
        /\ Value(request).tool_outputs.items[1] = [tool_call_id |-> 2, output |-> Some("")]
        /\ executed[i][1].outcome.value = None
        /\ executed[i][2].outcome.value = Some("42")

\* ---------------------------------------------------------------- C3
\* C3 as stated, its count: when run_async has finished, it has made exactly
\* one submit_tool_outputs_stream call per requires_action status reported.
C3_OneSubmitPerRequiresAction ==
    \A i \in Invocations :
        Finished(i) => calls[i].submit_tool_outputs_stream = calls[i].requires_action

\* the last stream of invocation i ended in a status other than requires_action
EndedOtherwise(i) ==
    /\ handler[i].current_run # None
    /\ Value(handler[i].current_run).status # "requires_action"

\* C3 as amended: every run_async call that has started finishes, given that
\* every stream and request ends and requires_action is reported at most
\* MaxRequiresAction times; it makes one submit_tool_outputs_stream call per
\* requires_action reported, except for a batch in which a tool raised CancelRun,
\* which is not submitted; and it makes no stream call once a stream has ended
\* in another status.
C3_FinishesOneSubmitUnlessCancelRun ==
    /\ \A i \in Invocations : (pc[i] # "idle") ~> Finished(i)
    /\ [](\A i \in Invocations :
            /\ calls[i].submit_tool_outputs_stream <= calls[i].requires_action
            /\ calls[i].requires_action <= calls[i].submit_tool_outputs_stream + 1
            /\ calls[i].requires_action = calls[i].submit_tool_outputs_stream + 1 =>
                  pc[i] \in {"get_tool_outputs", "submit"} \/ CancelRunRaised(i))
    /\ [][\A i \in Invocations :
            EndedOtherwise(i) =>
                /\ request' = None
                /\ stream'[i] = None
                /\ calls'[i].create_and_stream <= calls[i].create_and_stream
                /\ calls'[i].submit_tool_outputs_stream <= calls[i].submit_tool_outputs_stream]_vars

\* a run that finished after one requires_action and one submission
C3_Witness ==
    \E i \in Invocations :
        /\ pc[i] = "returned"
        /\ calls[i].requires_action = 1
        /\ calls[i].submit_tool_outputs_stream = 1
        /\ calls[i].streams_done = 2

Ids(list) == {list[k].id : k \in 1..Len(list)}

\* `list` holds the values of dict `d`, each once, in created_at order
IsSortedViewOf(list, d) ==
    /\ Len(list) = Cardinality(DictKeys(d))
    /\ \A id \in DictKeys(d) : \E k \in 1..Len(list) : list[k] = d[id]
    /\ \A k \in 1..Len(list) : \A n \in 1..Len(list) :
          k < n => list[k].id # list[n].id /\ list[k].created_at <= list[n].created_at

\* every entry of d is kept in d2, or replaced by an item of `reported`
KeptOrReplaced(d, d2, reported) ==
    \A id \in DictKeys(d) :
        /\ id \in DictKeys(d2)
        /\ d2[id] = d[id] \/ \E k \in 1..Len(reported) : reported[k] = d2[id]

\* C5: once a stream is done the message map and the step map hold every
\* final message and run step of its handler under their ids; no step of
\* the program removes an entry, and an entry changes only to one a handler
\* has just reported; the messages and steps properties list each id once,
\* in created_at order.
C5_MaterializedCumulatively ==
    /\ [](\A i \in Invocations :
            /\ \A k \in 1..Len(handler[i].final_messages) :
                  LET m == handler[i].final_messages[k]
                  IN  m.id \in DictKeys(_messages) /\ _messages[m.id] = m
            /\ \A k \in 1..Len(handler[i].final_run_steps) :
                  LET st == handler[i].final_run_steps[k]
                  IN  st.id \in DictKeys(_steps) /\ _steps[st.id] = st)
    /\ [](IsSortedViewOf(Messages, _messages) /\ IsSortedViewOf(Steps, _steps))
    /\ [][\E i \in Invocations :
            /\ KeptOrReplaced(_messages, _messages', handler'[i].final_messages)
            /\ KeptOrReplaced(_steps, _steps', handler'[i].final_run_steps)]_vars

\* after a resubmission the map holds a message of the constructor, one
\* of the first stream replaced by the second stream's, and a step
C5_Witness ==
    \E i \in Invocations :
        /\ pc[i] = "returned"
        /\ handler[i].id = 2
        /\ DictKeys(_messages) = {1, 2}
        /\ _messages[2].body = 0
        /\ _messages[1].body = 2
        /\ Ids(handler[i].final_messages) = {1}
        /\ Messages[1].id = 2
        /\ DictKeys(_steps) = {1}

\* ---------------------------------------------------------------- C6
\* the instructions of the assistant, "" when it has none
AssistantInstructions ==
    IF assistant.instructions = None THEN "" ELSE Value(assistant.instructions)

\* replacement, then append: what C6 says get_instructions and get_tools return
ComposedInstructions ==
    CASE instructions # None /\ additional_instructions = None -> Value(instructions)
      [] instructions # None /\ additional_instructions # None ->
            Value(instructions) \o "\n\n" \o Value(additional_instructions)
      [] instructions = None /\ additional_instructions = None -> AssistantInstructions
      [] instructions = None /\ additional_instructions # None ->
            AssistantInstructions \o "\n\n" \o Value(additional_instructions)
ComposedTools ==
    (IF tools # None THEN Value(tools) ELSE assistant.tools)
    \o (IF additional_tools # None THEN Value(additional_tools) ELSE <<>>)

\* C6: get_instructions and get_tools compose replacement-then-append, and
\* create_and_stream is given an instructions override exactly when
\* instructions or additional_instructions is set, a tools override exactly
\* when tools or additional_tools is set, each the composed value.
C6_ReplacementThenAppend ==
    /\ GetInstructions = ComposedInstructions
    /\ GetTools = ComposedTools
    /\ (request # None /\ Value(request).op = "create_and_stream") =>
        LET kwargs == Value(request).kwargs
        IN  /\ kwargs.instructions # None <=>
                  (instructions # None \/ additional_instructions # None)
            /\ kwargs.instructions # None => kwargs.instructions = Some(ComposedInstructions)
            /\ kwargs.tools # None <=> (tools # None \/ additional_tools # None)
            /\ kwargs.tools # None => kwargs.tools = Some(ComposedTools)

\* create_and_stream is called with the additional instructions appended to
\* the empty instructions of the assistant, and with no tools override
C6_Witness ==
    /\ request # None
    /\ Value(request).op = "create_and_stream"
    /\ assistant.instructions = None
    /\ Value(request).kwargs.instructions = Some("\n\nA")
    /\ Value(request).kwargs.tools = None
    /\ assistant.tools = <<"t0">>

\* ---------------------------------------------------------------- C7
\* C7: refresh and cancel on a Run without a run raise ValueError, send
\* nothing and leave the Run as it is; cancel on a Run with a run sends the
\* cancel request and then the retrieve request, both for the run's own id and
\* thread, and when it returns self.run is the run that was retrieved.
C7_RefreshAndCancel ==
    /\ [][(api.pc = "idle" /\ api'.pc # "idle" /\ run = None) =>
            /\ api'.pc = "raised"
            /\ api'.exc = Some(MakeException("ValueError", NOT_CREATED))
            /\ api'.sent = <<>>
            /\ request' = None
            /\ UNCHANGED object]_vars
    /\ [][(api.pc = "idle" /\ api'.pc # "idle" /\ run # None) =>
            /\ request' = Some([op |-> IF api'.op = "cancel" THEN "cancel" ELSE "retrieve",
                                run_id |-> Value(run).id, thread_id |-> THREAD_ID])
            /\ UNCHANGED object]_vars
    /\ [](api.pc = "raised" /\ api.exc = Some(MakeException("ValueError", NOT_CREATED)) =>
            run = None /\ request = None /\ api.sent = <<>>)
    /\ [](api.op = "cancel" /\ api.pc = "returned" =>
            /\ run = api.retrieved
            /\ api.sent = <<[op |-> "cancel", run_id |-> Value(run).id, thread_id |-> THREAD_ID],
                            [op |-> "retrieve", run_id |-> Value(run).id, thread_id |-> THREAD_ID]>>)

\* the user's cancel() has returned on a run that run_async created, with
\* the status the service reported after the cancel request
C7_Witness ==
    /\ api.op = "cancel"
    /\ api.caller = 0
    /\ api.pc = "returned"
    /\ Value(run).status = "cancelled"
    /\ Value(run).id = "run_2"
    /\ DictKeys(_steps) # {}

\* ---------------------------------------------------------------- C8
\* the tool calls of the batch invocation i is working on
RequestedToolCalls(i) == Value(handler[i].current_run).required_action.tool_calls

\* the tool calls made stop at the one that raised CancelRun, nothing of the
\* batch is submitted and on_exception is not called
CancelRunStopsBatch(i) ==
    /\ Len(executed[i]) <= Len(RequestedToolCalls(i))
    /\ \A k \in 1..Len(executed[i]) :
        /\ executed[i][k].tool_call = RequestedToolCalls(i)[k]
        /\ executed[i][k].outcome.kind = "cancel" <=> k = Len(executed[i])
    /\ calls[i].submit_tool_outputs_stream = calls[i].requires_action - 1
    /\ stream[i] = None
    /\ on_exception_calls[i] = <<>>
    /\ pc[i] \in {"except_cancel", "cancel_async", "post_run_hook", "returned", "raised"}

\* C8 as stated: once a tool call has raised CancelRun the rest of the batch
\* is not executed, nothing is submitted, on_exception is not called, and
\* run_async ends by returning, the run cancelled and refreshed, self.data
\* the data of the exception and post_run_hook called.
C8_CancelRunReturns ==
    \A i \in Invocations :
        CancelRunRaised(i) =>
            /\ CancelRunStopsBatch(i)
            /\ pc[i] # "raised"
            /\ pc[i] = "returned" =>
                  data = executed[i][Len(executed[i])].outcome.value
                  /\ calls[i].post_run_hook = 1

\* C8 as amended: the same, provided the cancel request and the retrieve
\* request that follows it succeed; if either raises, that exception leaves
\* run_async, self.data is not set and post_run_hook is not called.
C8_CancelRunReturnsIfCancelled ==
    \A i \in Invocations :
        CancelRunRaised(i) =>
            /\ CancelRunStopsBatch(i)
            /\ (pc[i] = "cancel_async" /\ api.pc = "cancel") =>
                  request = Some(CancelCall(Value(handler[i].current_run)))
            /\ (pc[i] = "cancel_async" /\ api.pc = "returned") =>
                  /\ api.caller = i
                  /\ run = api.retrieved
                  /\ api.sent = <<CancelCall(Value(run)), RetrieveCall(Value(run))>>
            /\ pc[i] \in {"post_run_hook", "returned"} =>
                  /\ data = executed[i][Len(executed[i])].outcome.value
                  /\ exc[i] = None
                  /\ calls[i].post_run_hook = IF pc[i] = "returned" THEN 1 ELSE 0
            /\ pc[i] = "raised" =>
                  /\ Value(exc[i]).type = "Exception"
                  /\ Value(exc[i]).arg \in {"cancel", "retrieve"}
                  /\ data # executed[i][Len(executed[i])].outcome.value
                  /\ calls[i].post_run_hook = 0

\* run_async has returned after the first of two requested tool calls
\* raised CancelRun
C8_Witness ==
    \E i \in Invocations :
        /\ pc[i] = "returned"
        /\ CancelRunRaised(i)
        /\ Len(executed[i]) = 1
        /\ Len(RequestedToolCalls(i)) = 2
        /\ data = Some("d1")
        /\ Value(run).status = "cancelling"

\* ---------------------------------------------------------------- C9
\* a tool call of the invocation's last batch raised another exception
ToolRaised(i) ==
    \E k \in 1..Len(executed[i]) : executed[i][k].outcome.kind = "raise"

\* every call of the batch was made and the batch is submitted, or about to
\* be, with the error string in the place of each call that raised
BatchSubmittedWithErrors(i) ==
    LET tool_calls == Value(run).required_action.tool_calls
        items == tool_outputs[i].items
    IN  /\ Len(executed[i]) = Len(tool_calls)
        /\ tool_outputs[i].type = "list"
        /\ Len(items) = Len(tool_calls)
        /\ \A k \in 1..Len(tool_calls) :
            /\ executed[i][k].tool_call = tool_calls[k]
            /\ items[k].tool_call_id = tool_calls[k].id
            /\ executed[i][k].outcome.kind = "raise" =>
                  items[k].output =
                      Some("Error calling function " \o tool_calls[k].name \o ": "
                           \o Value(executed[i][k].outcome.value))
        /\ pc[i] \in {"submit", "enter_stream", "except", "raised"}
        /\ pc[i] = "submit" =>
              calls[i].submit_tool_outputs_stream = calls[i].requires_action - 1
        /\ pc[i] # "submit" =>
              calls[i].submit_tool_outputs_stream = calls[i].requires_action
        /\ pc[i] = "enter_stream" =>
              /\ request # None
              /\ Value(request).op = "submit_tool_outputs_stream"
              /\ Value(request).tool_outputs = tool_outputs[i]

\* C9 as stated: after a tool call raised an exception other than CancelRun,
\* every call of the batch is made and the batch is submitted with an error
\* string naming the function in the place of that call.
C9_ToolErrorIsReported ==
    \A i \in Invocations : ToolRaised(i) => BatchSubmittedWithErrors(i)

\* C9 as amended: the same, unless another tool call of the batch raises
\* CancelRun.
C9_ToolErrorIsReportedUnlessCancelRun ==
    \A i \in Invocations :
        (ToolRaised(i) /\ ~CancelRunRaised(i)) => BatchSubmittedWithErrors(i)

\* a batch is being submitted whose first call raised and whose second
\* call returned
C9_Witness ==
    \E i \in Invocations :
        /\ pc[i] = "enter_stream"
        /\ Len(executed[i]) = 2
        /\ executed[i][1].outcome.kind = "raise"
        /\ executed[i][2].outcome.value = Some("42")
        /\ Value(request).tool_outputs.items =
              <<[tool_call_id |-> 1, output |-> Some("Error calling function f: boom")],
                [tool_call_id |-> 2, output |-> Some("42")]>>

\* ---------------------------------------------------------------- C10
\* the exceptions pre_run_hook, the replay and a stream raise
EscapingExceptions ==
    {MakeException("Exception", where) : where \in {"pre_run_hook", "on_message_done", "stream"}}

\* C10: an exception other than CancelRun that escapes from pre_run_hook, the
\* replay or a stream is passed once to on_exception of the handler current
\* then, which is the last one constructed, and is the exception raised to
\* the caller; post_run_hook is not called and self.data does not change.
C10_ExceptionReportedOnce ==
    /\ [](\A i \in Invocations :
            (pc[i] = "except" /\ exc[i] # None /\ Value(exc[i]) \in EscapingExceptions) =>
                /\ on_exception_calls[i] = <<>>
                /\ calls[i].post_run_hook = 0)
    /\ [](\A i \in Invocations :
            (pc[i] = "raised" /\ exc[i] # None /\ Value(exc[i]) \in EscapingExceptions) =>
                /\ on_exception_calls[i] = <<[handler |-> handlers[i], exc |-> Value(exc[i])]>>
                /\ handler[i].id = handlers[i]
                /\ calls[i].post_run_hook = 0)
    /\ [][\A i \in Invocations :
            (pc'[i] \in {"except", "raised"} /\ pc[i] # pc'[i]
                /\ exc'[i] # None /\ Value(exc'[i]) \in EscapingExceptions) =>
                /\ data' = data
                /\ pc[i] = "except" => exc'[i] = exc[i]]_vars

\* the resubmission stream failed: on_exception was called on the second
\* handler and the exception of the stream was raised
C10_Witness ==
    \E i \in Invocations :
        /\ pc[i] = "raised"
        /\ Value(exc[i]) = MakeException("Exception", "stream")
        /\ handlers[i] = 2
        /\ on_exception_calls[i] = <<[handler |-> 2, exc |-> MakeException("Exception", "stream")]>>
        /\ DictKeys(_steps) # {}

\* ---------------------------------------------------------------- C11
\* invocation i was refused by the guard on self.run, or has not started
Refused(i) ==
    \/ pc[i] = "idle"
    \/ pc[i] = "raised" /\ exc[i] = Some(MakeException("ValueError", HAS_RUN))

\* the replay of every message of the Run to the first handler, in the
\* order of created_at
FullReplay == [k \in 1..Len(Messages) |-> [handler |-> 1, message |-> Messages[k]]]

StreamsOpened(i) == calls[i].create_and_stream + calls[i].submit_tool_outputs_stream

\* C12: every stream is opened with a handler of its own, constructed just
\* before (the first for the initial stream, the next one for each
\* resubmission); when a stream is done self.run is the current_run of that
\* stream's handler, the loop goes on exactly when that run requires action,
\* and the next submission carries the id of that run.
C12_OwnHandlerPerStream ==
    /\ [](\A i \in Invocations :
            /\ handler[i].id = handlers[i]
            /\ StreamsOpened(i) > 0 => handlers[i] = StreamsOpened(i)
            /\ stream[i] # None => handler[i].current_run = None
            /\ pc[i] \in {"get_tool_outputs", "submit", "except_cancel"} =>
                  /\ run = handler[i].current_run
                  /\ Value(run).status = "requires_action")
    /\ [][\A i \in Invocations :
            /\ StreamsOpened(i)' > StreamsOpened(i) =>
                  /\ Value(request').event_handler = StreamsOpened(i) + 1
                  /\ handler'[i] = [id |-> StreamsOpened(i) + 1, current_run |-> None,
                                    final_messages |-> <<>>, final_run_steps |-> <<>>]
            /\ calls'[i].streams_done > calls[i].streams_done =>
                  /\ handler'[i].id = handler[i].id
                  /\ handler'[i].current_run # None
                  /\ run' = handler'[i].current_run
                  /\ pc'[i] = (IF Value(run').status = "requires_action"
                               THEN "get_tool_outputs" ELSE "post_run_hook")
            /\ calls'[i].submit_tool_outputs_stream > calls[i].submit_tool_outputs_stream =>
                  /\ Value(request').run_id = Value(handler[i].current_run).id
                  /\ Value(request').event_handler = handler[i].id + 1]_vars

\* the resubmission stream is done: self.run is the completed run its
\* handler, the second, reports
C12_Witness ==
    \E i \in Invocations :
        /\ pc[i] = "post_run_hook"
        /\ calls[i].streams_done = 2
        /\ handler[i].id = 2
        /\ run = handler[i].current_run
        /\ Value(run) = [id |-> "run_2", status |-> "completed", required_action |-> NoAction]

\* ---------------------------------------------------------------- C13
\* C13: every submit_tool_outputs_stream call in flight passes a list as
\* tool_outputs, never None and never a tuple.
C13_SubmitsAList ==
    (request # None /\ Value(request).op = "submit_tool_outputs_stream") =>
        Value(request).tool_outputs.type = "list"

\* ---------------------------------------------------------------- C14
\* a stream of invocation i raised before it was done
StreamFailed(i) ==
    /\ pc[i] \in {"except", "raised"}
    /\ exc[i] = Some(MakeException("Exception", "stream"))

\* C14: from the call that opens a stream up to the failure of that stream,
\* and on to the end of run_async, self.run, the message map and the step map
\* do not change: after a failed initial stream self.run is unset, after a
\* failed resubmission it is the requires_action run of the round before.
C14_FailedStreamChangesNothing ==
    /\ [][\A i \in Invocations :
            (\/ StreamsOpened(i)' > StreamsOpened(i)
             \/ stream[i] # None /\ calls'[i].streams_done = calls[i].streams_done
             \/ StreamFailed(i) /\ pc'[i] # "idle")
            => UNCHANGED <<run, _messages, _steps>>]_vars
    /\ [](\A i \in Invocations :
            StreamFailed(i) =>
                /\ stream[i] = None
                /\ calls[i].streams_done = StreamsOpened(i) - 1
                /\ calls[i].submit_tool_outputs_stream = 0 => run = None
                /\ calls[i].submit_tool_outputs_stream > 0 =>
                      /\ run # None
                      /\ Value(run).status = "requires_action"
                      /\ calls[i].requires_action = calls[i].submit_tool_outputs_stream)

\* a resubmission stream failed: self.run is still the requires_action run
\* and the messages of the initial stream are still there
C14_Witness ==
    \E i \in Invocations :
        /\ StreamFailed(i)
        /\ pc[i] = "raised"
        /\ calls[i].submit_tool_outputs_stream = 1
        /\ Value(run).status = "requires_action"
        /\ DictKeys(_messages) = {1, 2}
        /\ \A id \in DictKeys(_messages) : _messages[id].body = 1

InInitialStream(i) ==
    /\ stream[i] # None
    /\ Value(stream[i]).op = "create_and_stream"

\* C16: of two run_async invocations that overlap, the second starting
\* before the initial stream of the first is done, at most one calls
\* create_and_stream: two initial streams are never open at once.
C16_OverlappingCallsCreateOnce ==
    \A i, j \in Invocations :
        (i # j /\ InInitialStream(i)) => ~InInitialStream(j)

====
